---- MODULE Spec2Model ----
(***************************************************************************)
(* A model of src/minigame.py: the procedural track generator (TrackGen),  *)
(* the vehicle physics (Player) and the frame loop of main().              *)
(*                                                                         *)
(* Number representation.  The program computes with Python floats; the    *)
(* model computes with exact integers in fixed sub-units:                  *)
(*   - speeds, the scroll accumulator and enemy x positions are counted in *)
(*     1/Sub of a column (Sub = 20: SPEED_STEP = 0.05 is one unit, the     *)
(*     enemy shimmy 0.35 is seven units);                                  *)
(*   - player.y is counted in 1/(FPS*FPS) of a row and player.vy in 1/FPS  *)
(*     of a row per second, so that y -= vy*dt and vy -= GRAVITY*dt with   *)
(*     dt = 1/FPS are exact integer updates.                               *)
(* The integer formulas were compared with the float results of the source *)
(* for every value the model reaches; the single place where the float     *)
(* rounding decides a comparison (the exact tie of update 25 of a jump) is *)
(* modelled in Reaches.                                                    *)
(***************************************************************************)
EXTENDS Integers, Sequences, FiniteSets, TLC

\* ------------------------------------------------------------ tunables
FPS == 30
GRAVITY == 22
JUMP_VEL == 10
GROUND_PAD == 2
\* sub-column resolution: 1/Sub column = SPEED_STEP (0.05)
Sub == 20
START_SPEED == 1 * Sub
SPEED_STEP == 1
MAX_ELEV == 10
PIT_MIN == 3
PIT_MAX == 9
SAFE_START_SEC == 2
\* CAR_X_FRACTION = 0.14, in percent
CAR_X_FRACTION == 14
EDGE_BUFFER == 4
BOOST_MULTIPLIER == 2
BULLET_SPEED_COLS == 3
ENEMY_SCORE == 25
\* ENEMY_SHIM_PER_FRAME = 0.35 = 7/Sub
ENEMY_SHIM_PER_FRAME == 7
ENEMY_HEIGHT == 3
ENEMY_WIDTH == 9
CAR_H == 3
CAR_W == 6
\* the offset that marks a projectile spent: b['x'] = w + 999
SPENT_OFFSET == 999

\* ------------------------------------------------------------ bounds
\* the narrow screen of Spec
Heights == {7}
Widths == {2}
\* the screen sizes a resize may report in SpecResize
ResizeHeights == {6, 7}
ResizeWidths == {1, 2}
\* screen heights a caller of the generator derives max_elev from
GenHeights == {6, 7}
\* speeds (in 1/Sub column per frame) passed to next_cell by a direct caller
GenSpeeds == {2, 5, 20, 40}
\* columns generated past the warm-up before the frame loop is cut off
MaxPost == 6
\* speed ramps before the ramp timer is cut off
MaxSpeedUps == 1
\* enemies and projectiles handed to the projectile-enemy resolution
MaxEnemies == 2
MaxShots == 2
\* the wide screen of SpecWide
WideHeights == {7}
WideWidths == {16}
\* screen heights whose base row the player of SpecJump jumps from
JumpHeights == {7, 9, 14, 16}

Min(a, b) == IF a < b THEN a ELSE b
Max(a, b) == IF a > b THEN a ELSE b

clamp(v, lo, hi) == IF v < lo THEN lo ELSE IF v > hi THEN hi ELSE v

\* ------------------------------------------------------------ jump envelope
\* mutant: the hard minimum of 3 columns is applied after the spacing factor
max_jump_columns_nofloor(s) == (s * FPS * 2 * JUMP_VEL * 9) \div (Sub * GRAVITY * 10)

\* int(vx * t_air * 0.9) with vx = speed*FPS, t_air = 2*JUMP_VEL/GRAVITY
max_jump_columns(s) ==
    Max(3, (s * FPS * 2 * JUMP_VEL * 9) \div (Sub * GRAVITY * 10))

\* mutant: spacing of one jump length less one column
min_spacing_short(s) == max_jump_columns(s) - 1

\* int(max_jump_columns(speed) * SPACING_FACTOR), SPACING_FACTOR = 1.2 = 12/10
min_spacing(s) == (max_jump_columns(s) * 12) \div 10

\* ------------------------------------------------------------ layout
\* main.layout: the values derived from the terminal size (h, w)
layout(nh, nw) ==
    LET ground_row == nh - 1 - GROUND_PAD
    IN  [h |-> nh, w |-> nw,
         ground_row |-> ground_row,
         base_row |-> ground_row - 1,
         eff_max_elev |-> Max(0, Min(MAX_ELEV, ground_row - 3)),
         car_x |-> (nw * CAR_X_FRACTION) \div 100]

\* warmup_cols = int(SAFE_START_SEC * START_SPEED * FPS) + w
warmup_for(nw) == (SAFE_START_SEC * START_SPEED * FPS) \div Sub + nw

\* ------------------------------------------------------------ TrackGen
\* TrackGen.__init__
TrackGen(width, warmup_cols, max_elev) ==
    [warmup_cols |-> warmup_cols, cooldown |-> 0, pit_left |-> 0,
     edge_protect |-> 0, elev |-> 0, max_elev |-> max_elev]

\* mutant: the direction is drawn at random at both bounds too
step_event_unforced(t) ==
    {[t EXCEPT !.elev = @ + 1], [t EXCEPT !.elev = @ - 1]}

\* TrackGen._step_event: the generator states a step event can lead to
\* (both directions when the direction is drawn from the random source)
step_event(t) ==
    IF t.elev = 0 THEN {[t EXCEPT !.elev = @ + 1]}
    ELSE IF t.elev >= t.max_elev THEN {[t EXCEPT !.elev = @ - 1]}
    ELSE {[t EXCEPT !.elev = @ + 1], [t EXCEPT !.elev = @ - 1]}

\* one result of next_cell: the new generator state, the column (cell, elev),
\* the enemy marker, and the number of hazard-category draws consumed
Cell(t, c, en, nd) ==
    [track |-> t, cell |-> c, elev |-> t.elev, enemy |-> en, draws |-> nd]

\* pit_cap = max(PIT_MIN, min(PIT_MAX, J - 2))
pit_cap(s) == Max(PIT_MIN, Min(PIT_MAX, max_jump_columns(s) - 2))

\* mutant: a single-column hazard arms no cooldown
arm_cooldown_none(t, s) == t

\* self.cooldown = min_spacing(speed_cols_per_frame), armed by a cone or an
\* enemy column
arm_cooldown(t, s) == [t EXCEPT !.cooldown = min_spacing(s)]

\* mutant: the warm-up counter is ignored
warmup_branch_off(t) == FALSE

\* the warm-up test of next_cell
warmup_branch(t) == t.warmup_cols > 0

\* mutant: a pit may be one column wider than pit_cap
pit_widths_wide(s) == PIT_MIN .. (pit_cap(s) + 1)

\* rng.randint(PIT_MIN, pit_cap)
pit_widths(s) == PIT_MIN .. pit_cap(s)

\* mutant: cones ignore edge protection
can_cone_always(t) == TRUE

\* can_cone = (self.edge_protect == 0)
can_cone(t) == t.edge_protect = 0

\* the new-hazard roll of next_cell (lines 110-141): every result the random
\* draws can produce
roll(t, s) ==
    LET can_pit == pit_cap(s) >= PIT_MIN
        steps == {Cell([u EXCEPT !.cooldown = min_spacing(s),
                                 !.edge_protect = EDGE_BUFFER], "G", FALSE, 1)
                    : u \in step_event(t)}
        pits == IF can_pit
                THEN {Cell([t EXCEPT !.pit_left = pw - 1], " ", FALSE, 2)
                        : pw \in pit_widths(s)}
                ELSE {}
        cones == IF can_cone(t)
                 THEN {Cell(arm_cooldown(t, s), "C", FALSE, 3)}
                 ELSE {}
        flies == {Cell(arm_cooldown(t, s), "G", TRUE, 4)}
        plain == {Cell([t EXCEPT !.edge_protect = IF @ > 0 THEN @ - 1 ELSE @],
                       "G", FALSE, 4)}
    IN  steps \cup pits \cup cones \cup flies \cup plain

\* TrackGen.next_cell: the set of results over all random draws
next_cell(t, s) ==
    IF warmup_branch(t)
    THEN {Cell([t EXCEPT !.warmup_cols = @ - 1], "G", FALSE, 0)}
    ELSE IF t.pit_left > 0
    THEN LET t1 == [t EXCEPT !.pit_left = @ - 1]
             t2 == IF t1.pit_left = 0
                   THEN [t1 EXCEPT !.cooldown = min_spacing(s),
                                   !.edge_protect = EDGE_BUFFER]
                   ELSE t1
         IN  {Cell(t2, " ", FALSE, 0)}
    ELSE IF t.cooldown > 0
    THEN {Cell([t EXCEPT !.cooldown = @ - 1,
                         !.edge_protect = IF @ > 0 THEN @ - 1 ELSE @],
               "G", FALSE, 0)}
    ELSE roll(t, s)

\* TrackGen.advance: n calls of next_cell; every result the draws can produce
RECURSIVE advance(_, _, _)
advance(t, n, s) ==
    IF n = 0
    THEN {[track |-> t, cells |-> <<>>, enemies |-> 0]}
    ELSE UNION {
           {[track |-> r2.track,
             cells |-> <<[cell |-> r.cell, elev |-> r.elev]>> \o r2.cells,
             enemies |-> r2.enemies + (IF r.enemy THEN 1 ELSE 0)]
              : r2 \in advance(r.track, n - 1, s)}
           : r \in next_cell(t, s)}

\* ------------------------------------------------------------ state
VARIABLES
    scr,          \* h, w, ground_row, base_row, eff_max_elev, car_x of main
    track,        \* the TrackGen object
    visible,      \* the deque of (cell, elev) columns on screen
    scroll_acc,   \* fractional scroll distance, in 1/Sub column
    speed,        \* scroll speed, in 1/Sub column per frame
    score, best,
    boost, paused, game_over, running,
    player,       \* the Player object
    bullets,      \* list of {'x', 'y'}
    enemies,      \* list of {'x', 'y', 'shim'}, x in 1/Sub column
    speed_ups,    \* number of speed ramps so far
    odo,          \* columns generated since program start, warm-up included
    crashed,      \* the frame loop ended with an uncaught IndexError
    ev,           \* what the last loop iteration did (observation)
    gobs          \* what the generator has emitted so far (observation)

vars == <<scr, track, visible, scroll_acc, speed, score, best, boost, paused,
          game_over, running, player, bullets, enemies, speed_ups,
          odo, crashed, ev, gobs>>

\* ------------------------------------------------------------ generator observation
\* saturation points of the observation counters
GapCap == min_spacing(40) + 1
ColCap == warmup_for(2) + 2

\* the observation of a generator that has emitted nothing yet
gobs0(nw) ==
    [w0 |-> nw,          \* screen width when the generator was constructed
     n |-> 0,            \* columns emitted (saturating at ColCap)
     clean |-> TRUE,     \* every column so far: 'G', elevation 0, no enemy
     cell |-> "G", elev |-> 0,   \* the last column
     hz |-> FALSE,       \* some hazard column has been emitted
     gap |-> 0,          \* plain columns since the last hazard column
     need |-> 0,         \* min_spacing(speed of the call of the last hazard column)
     jump |-> 0,         \* max_jump_columns(speed of that call)
     start |-> FALSE,    \* the last column started a hazard after an earlier one
     sgap |-> 0,         \* then: the gap before it
     sneed |-> 0,        \* then: the need before it
     pitw |-> 0,         \* width so far of the pit the last column belongs to
     pits |-> 0,         \* speed passed on the call that started that pit
     pit_done |-> 0,     \* the last column follows a pit of this width (0: it does not)
     pit_done_s |-> 0,   \* then: the speed at which that pit started
     step |-> FALSE,     \* the last column changed the elevation
     step_from |-> 0,    \* then: the elevation before
     step_max |-> 0,     \* then: max_elev at the call
     draws |-> 0,        \* hazard-category draws the last call consumed
     after_pit |-> EDGE_BUFFER + 2]  \* columns since the last pit column
                         \* (saturating at EDGE_BUFFER + 2, its value before any pit)

\* the observation after next_cell(s), called in generator state t, returned
\* column r
Observe(g, t, r, s) ==
    LET step == r.elev # g.elev
        hazard == r.cell # "G" \/ r.enemy \/ step
        in_pit == r.cell = " " /\ g.cell = " " /\ ~step
        starts == hazard /\ ~in_pit /\ g.hz
        ended_pit == g.cell = " " /\ ~in_pit
    IN  [g EXCEPT
          !.n = Min(@ + 1, ColCap),
          !.clean = @ /\ ~hazard /\ r.elev = 0,
          !.cell = r.cell, !.elev = r.elev,
          !.hz = @ \/ hazard,
          !.gap = IF hazard THEN 0 ELSE Min(@ + 1, GapCap),
          !.need = IF hazard THEN min_spacing(s) ELSE @,
          !.jump = IF hazard THEN max_jump_columns(s) ELSE @,
          !.start = starts,
          !.sgap = IF starts THEN g.gap ELSE 0,
          !.sneed = IF starts THEN g.need ELSE 0,
          !.pitw = IF r.cell # " " THEN 0 ELSE IF in_pit THEN @ + 1 ELSE 1,
          !.pits = IF r.cell # " " THEN 0 ELSE IF in_pit THEN @ ELSE s,
          !.pit_done = IF ended_pit THEN g.pitw ELSE 0,
          !.pit_done_s = IF ended_pit THEN g.pits ELSE 0,
          !.step = step,
          !.step_from = IF step THEN g.elev ELSE 0,
          !.step_max = IF step THEN t.max_elev ELSE 0,
          !.draws = r.draws,
          !.after_pit = IF r.cell = " " THEN 0 ELSE Min(@ + 1, EDGE_BUFFER + 2)]

\* ------------------------------------------------------------ Player
\* rows and vertical speed in integer sub-units (see the header)
YU == FPS * FPS
VU == FPS

\* Player.__init__
Player(surface_row, x) ==
    [x |-> x, y |-> surface_row * YU, vy |-> 0, on_ground |-> TRUE,
     jump_buffer |-> FALSE]

\* self.y >= surface_row in floats.  The exact value of y is an integer row
\* only at update 25 of a jump (height exactly one row); there the
\* accumulated float error leaves y just short of the row when the take-off
\* row is at most 10 (the row reached is at most 9), and on it otherwise.
Reaches(y, surface_row) ==
    y > surface_row * YU \/ (y = surface_row * YU /\ surface_row >= 10)

\* mutant: a landing that leaves y and vy where the fall took them
update_unclamped(p, surface_row) ==
    LET p1 == IF p.jump_buffer /\ p.on_ground
              THEN [p EXCEPT !.vy = JUMP_VEL * VU, !.on_ground = FALSE,
                             !.jump_buffer = FALSE]
              ELSE p
        y2 == p1.y - p1.vy
        vy2 == p1.vy - GRAVITY
    IN  IF ~p1.on_ground
        THEN IF Reaches(y2, surface_row)
             THEN [p1 EXCEPT !.y = y2, !.vy = vy2, !.on_ground = TRUE]
             ELSE [p1 EXCEPT !.y = y2, !.vy = vy2]
        ELSE p1

\* Player.update(surface_row, 1/FPS)
update(p, surface_row) ==
    LET p1 == IF p.jump_buffer /\ p.on_ground
              THEN [p EXCEPT !.vy = JUMP_VEL * VU, !.on_ground = FALSE,
                             !.jump_buffer = FALSE]
              ELSE p
        y2 == p1.y - p1.vy
        vy2 == p1.vy - GRAVITY
    IN  IF ~p1.on_ground
        THEN IF Reaches(y2, surface_row)
             THEN [p1 EXCEPT !.y = surface_row * YU, !.vy = 0, !.on_ground = TRUE]
             ELSE [p1 EXCEPT !.y = y2, !.vy = vy2]
        ELSE [p1 EXCEPT !.y = surface_row * YU]

\* int(round(v)) of a value counted in 1/unit: round half to even
round_to(v, unit) ==
    LET q == (2 * v + unit) \div (2 * unit)
    IN  IF (2 * v + unit) % (2 * unit) = 0 /\ q % 2 = 1 THEN q - 1 ELSE q

\* rects_overlap
rects_overlap(ax, ay, aw, ah, bx, by, bw, bh) ==
    (ax < bx + bw) /\ (bx < ax + aw) /\ (ay < by + bh) /\ (by < ay + ah)

\* ------------------------------------------------------------ frame loop
Keys == {"none", "q", "p", "up", "right", "space", "r", "other"}

\* the observation of a loop iteration that ran no simulation
ev_idle(e) ==
    [e EXCEPT !.sim = FALSE, !.cols = 0, !.kills = 0, !.terrain = FALSE,
              !.wall = FALSE, !.hit = FALSE, !.shots = <<>>, !.targets = <<>>]

ev0 ==
    [sim |-> FALSE,      \* the simulation block ran to its end
     score0 |-> 0,       \* score when the simulation block was entered
     cols |-> 0,         \* columns scrolled
     kills |-> 0,        \* enemies removed by projectiles
     terrain |-> FALSE,  \* the lethal-terrain check set game_over
     wall |-> FALSE,     \* the step-wall check set game_over
     hit |-> FALSE,      \* the enemy-vehicle check set game_over
     shots |-> <<>>,     \* projectiles entering the projectile-enemy resolution
     targets |-> <<>>,   \* enemies entering the projectile-enemy resolution
     tcols |-> 0,        \* columns scrolled since the run started
     tkills |-> 0]       \* enemies removed since the run started

\* the program's variables as one record
World ==
    [scr |-> scr, track |-> track, visible |-> visible,
     scroll_acc |-> scroll_acc, speed |-> speed, score |-> score,
     best |-> best, boost |-> boost, paused |-> paused,
     game_over |-> game_over, running |-> running, player |-> player,
     bullets |-> bullets, enemies |-> enemies,
     speed_ups |-> speed_ups, odo |-> odo, crashed |-> crashed, ev |-> ev]

Commit(S) ==
    /\ scr' = S.scr /\ track' = S.track /\ visible' = S.visible
    /\ scroll_acc' = S.scroll_acc /\ speed' = S.speed /\ score' = S.score
    /\ best' = S.best /\ boost' = S.boost /\ paused' = S.paused
    /\ game_over' = S.game_over /\ running' = S.running
    /\ player' = S.player /\ bullets' = S.bullets /\ enemies' = S.enemies
    /\ speed_ups' = S.speed_ups
    /\ odo' = S.odo /\ crashed' = S.crashed /\ ev' = S.ev
    /\ UNCHANGED gobs

\* mutant: a shrink keeps the leftmost (oldest) columns
keep_window_left(v, n) == IF Len(v) <= n THEN v ELSE SubSeq(v, 1, n)

\* deque(list(visible)[-w:], maxlen=w), and a deque of maxlen w after extend:
\* the rightmost n columns are kept
keep_window(v, n) ==
    IF Len(v) <= n THEN v ELSE SubSeq(v, Len(v) - n + 1, Len(v))

\* resize handling at the top of the loop (lines 226-231)
resize(S, nh, nw) ==
    LET L == layout(nh, nw)
    IN  IF <<nh, nw>> # <<S.scr.h, S.scr.w>> \/ L.eff_max_elev # S.scr.eff_max_elev
        THEN [S EXCEPT !.scr = L,
                       !.track.max_elev = L.eff_max_elev,
                       !.player.x = clamp(L.car_x, 0, Max(0, nw - 1)),
                       !.visible = keep_window(S.visible, nw)]
        ELSE S

\* mutant: a restart that keeps the score
restart_keep_score(S, cells) ==
    [S EXCEPT !.best = Max(S.best, S.score),
              !.game_over = FALSE, !.speed = START_SPEED,
              !.track = cells.track,
              !.visible = cells.cells,
              !.odo = @ + S.scr.w,
              !.player = Player(S.scr.base_row
                                  - (IF cells.cells # <<>> THEN cells.cells[1].elev ELSE 0),
                                S.scr.car_x),
              !.bullets = <<>>, !.enemies = <<>>,
              !.ev.tcols = 0, !.ev.tkills = 0]

\* the restart branch of the key handler (lines 247-257); cells is the result
\* of track.advance(w, speed) on the fresh generator
restart(S, cells) ==
    [S EXCEPT !.best = Max(S.best, S.score),
              !.score = 0, !.game_over = FALSE, !.speed = START_SPEED,
              !.track = cells.track,
              !.visible = cells.cells,
              !.odo = @ + S.scr.w,
              !.player = Player(S.scr.base_row
                                  - (IF cells.cells # <<>> THEN cells.cells[1].elev ELSE 0),
                                S.scr.car_x),
              !.bullets = <<>>, !.enemies = <<>>,
              !.ev.tcols = 0, !.ev.tkills = 0]

\* mutant: jump and shoot keys are refused while paused only
live_unpaused(S) == ~S.paused

\* not game_over and not paused, the guard of the jump and shoot keys
live(S) == ~S.game_over /\ ~S.paused

\* the key handler (lines 233-260); ready: now - last_shot_time >= BULLET_COOLDOWN,
\* which the wall clock decides (a shot refused by the cooldown changes nothing,
\* so last_shot_time itself is not kept)
handle_key(S, key, ready, cells) ==
    CASE key = "q" -> [S EXCEPT !.running = FALSE]
      [] key = "p" -> [S EXCEPT !.paused = ~@]
      [] key = "up" ->
           IF live(S) THEN [S EXCEPT !.player.jump_buffer = TRUE]
           ELSE S
      [] key = "right" -> [S EXCEPT !.boost = TRUE]
      [] key = "space" ->
           IF ready /\ live(S)
           THEN [S EXCEPT !.bullets = Append(@, [x |-> S.player.x + CAR_W,
                                                y |-> round_to(S.player.y, YU) - 2])]
           ELSE S
      [] key = "r" -> IF S.game_over THEN restart(S, cells) ELSE S
      [] key = "none" -> [S EXCEPT !.boost = FALSE]
      [] OTHER -> S

\* current_speed = speed * (BOOST_MULTIPLIER if boost else 1.0), after the ramp
\* (due: now - last_speed_up >= SPEED_UP_EVERY)
scroll_speed(S, due) ==
    (S.speed + (IF due THEN SPEED_STEP ELSE 0))
      * (IF S.boost THEN BOOST_MULTIPLIER ELSE 1)

\* cols = int(scroll_acc) after scroll_acc += current_speed
scroll_cols(S, due) == (S.scroll_acc + scroll_speed(S, due)) \div Sub

\* mutant: a spent projectile stays where it is
spend_not(b, w) == b

\* b['x'] = w + 999
spend(b, w) == [b EXCEPT !.x = w + SPENT_OFFSET]

\* mutant: every overlapping projectile scores
hits_scored_all(n) == n

\* score += ENEMY_SCORE once, at the first overlapping projectile (break)
hits_scored(n) == 1

\* bullet vs enemy (lines 308-320): es the enemies still to visit, bs the
\* projectiles, kept the enemies not hit so far, pts the score gained
RECURSIVE resolve(_, _, _, _, _)
resolve(es, bs, w, kept, pts) ==
    IF es = <<>>
    THEN [enemies |-> kept, bullets |-> bs, pts |-> pts]
    ELSE LET e == Head(es)
             ex == round_to(e.x, Sub)
             hits == {i \in 1..Len(bs) :
                        rects_overlap(bs[i].x, bs[i].y, 1, 1,
                                      ex, e.y, ENEMY_WIDTH, ENEMY_HEIGHT)}
             first == CHOOSE i \in hits : \A j \in hits : i <= j
         IN  IF hits = {}
             THEN resolve(Tail(es), bs, w, Append(kept, e), pts)
             ELSE resolve(Tail(es), [bs EXCEPT ![first] = spend(bs[first], w)], w,
                          kept, pts + ENEMY_SCORE * hits_scored(Cardinality(hits)))

\* bullet vs enemy and the filter after it (lines 307-321): es and bs are the
\* enemies and projectiles left by the shimmy and the projectile move
shoot_down(S, es, bs) ==
    LET w == S.scr.w
        OnScreen(b) == b.x < w
        res == resolve(es, bs, w, <<>>, 0)
    IN  [S EXCEPT !.enemies = res.enemies,
                  !.bullets = SelectSeq(res.bullets, OnScreen),
                  !.score = @ + res.pts,
                  !.ev = [@ EXCEPT !.kills = Len(es) - Len(res.enemies),
                                   !.shots = bs, !.targets = es,
                                   !.tkills = @ + Len(es) - Len(res.enemies)]]

\* the world part of the simulation block (lines 268-321); adv is the result
\* of track.advance(cols, current_speed)
world_step(S, due, adv) ==
    LET cs == scroll_speed(S, due)
        acc1 == S.scroll_acc + cs
        cols == acc1 \div Sub
        w == S.scr.w
        popped == IF cols >= Len(S.visible) THEN <<>>
                  ELSE SubSeq(S.visible, cols + 1, Len(S.visible))
        vis == IF cols > 0 THEN keep_window(popped \o adv.cells, w) ELSE S.visible
        right_elev == IF vis # <<>> THEN vis[Len(vis)].elev ELSE 0
        enemy_top == Max(0, S.scr.base_row - right_elev - ENEMY_HEIGHT)
        all == S.enemies \o [i \in 1..adv.enemies |->
                               [x |-> (w - ENEMY_WIDTH) * Sub, y |-> enemy_top, shim |-> 1]]
        en1 == IF cols > 0
               THEN [i \in 1..Len(all) |-> [all[i] EXCEPT !.x = @ - cols * Sub]]
               ELSE S.enemies
        OnScreen(b) == b.x < w
        b1 == SelectSeq([i \in 1..Len(S.bullets) |->
                           [S.bullets[i] EXCEPT !.x = @ + BULLET_SPEED_COLS]], OnScreen)
        NotGone(e) == e.x + ENEMY_WIDTH * Sub > 0
        en2 == SelectSeq([i \in 1..Len(en1) |->
                            [en1[i] EXCEPT !.x = @ + ENEMY_SHIM_PER_FRAME * en1[i].shim,
                                           !.shim = -@]], NotGone)
        S1 == [S EXCEPT !.speed = @ + (IF due THEN SPEED_STEP ELSE 0),
                        !.speed_ups = @ + (IF due THEN 1 ELSE 0),
                        !.scroll_acc = acc1 - cols * Sub,
                        !.visible = vis,
                        !.track = adv.track,
                        !.odo = @ + cols,
                        !.ev = [@ EXCEPT !.sim = FALSE, !.score0 = S.score,
                                         !.cols = cols, !.terrain = FALSE,
                                         !.wall = FALSE, !.hit = FALSE,
                                         !.tcols = @ + cols]]
    IN  shoot_down(S1, en2, b1)

\* mutant: grounded means the flag Player.on_ground
near_flag(p, surface_row) == p.on_ground

\* on_ground = abs(player.y - surface_row) < 0.51
near(p, surface_row) ==
    LET d == p.y - surface_row * YU
    IN  (IF d < 0 THEN -d ELSE d) * 100 < 51 * YU

\* mutant: terrain is lethal whether grounded or not
lethal_airborne(on_ground, cell_here) == cell_here = " " \/ cell_here = "C"

\* mutant: cones are not lethal
lethal_pit_only(on_ground, cell_here) == on_ground /\ cell_here = " "

\* on_ground and (cell_here == ' ' or cell_here == 'C')
lethal(on_ground, cell_here) == on_ground /\ (cell_here = " " \/ cell_here = "C")

\* mutant: only a wall of two rows or more is a crash
step_wall_lenient(on_ground, elev_next, elev_here, y, next_surface_row) ==
    on_ground /\ elev_next > elev_here + 1 /\ y * 100 > (next_surface_row * 100 - 1) * YU

\* on_ground and elev_next > elev_here and player.y > next_surface_row - 0.01
step_wall(on_ground, elev_next, elev_here, y, next_surface_row) ==
    on_ground /\ elev_next > elev_here /\ y * 100 > (next_surface_row * 100 - 1) * YU

\* mutant: the scrolled columns are added on the frame that ends the run too
score_gain_always(over, cols) == cols

\* if not game_over: score += cols
score_gain(over, cols) == IF ~over THEN cols ELSE 0

\* the frame loop leaves main with an uncaught IndexError
crash(S) == [S EXCEPT !.crashed = TRUE, !.running = FALSE]

\* the car part of the simulation block (lines 323-355)
car_step(S) ==
    LET w == S.scr.w
        vis == S.visible
        car_col == clamp(S.player.x, 0, w - 1)
        elev_here == IF vis # <<>> THEN vis[car_col + 1].elev ELSE 0
        surface_row == S.scr.base_row - elev_here
        p == update(S.player, surface_row)
        cell_here == IF vis # <<>> THEN vis[car_col + 1].cell ELSE "G"
        on_ground == near(p, surface_row)
        terrain == lethal(on_ground, cell_here)
        next_col == clamp(car_col + 1, 0, w - 1)
        elev_next == IF vis # <<>> THEN vis[next_col + 1].elev ELSE elev_here
        next_surface_row == S.scr.base_row - elev_next
        wall == step_wall(on_ground, elev_next, elev_here, p.y, next_surface_row)
        car_top == round_to(p.y, YU) - (CAR_H - 1)
        hit == \E i \in 1..Len(S.enemies) :
                  rects_overlap(S.player.x, car_top, CAR_W, CAR_H,
                                round_to(S.enemies[i].x, Sub), S.enemies[i].y,
                                ENEMY_WIDTH, ENEMY_HEIGHT)
        over == terrain \/ wall \/ hit
    IN  IF vis # <<>> /\ car_col >= Len(vis)
        THEN crash(S)
        ELSE IF vis # <<>> /\ next_col >= Len(vis)
        THEN crash([S EXCEPT !.player = p, !.game_over = terrain])
        ELSE [S EXCEPT !.player = p,
                       !.game_over = over,
                       !.score = @ + score_gain(over, S.ev.cols),
                       !.ev.sim = TRUE, !.ev.terrain = terrain,
                       !.ev.wall = wall, !.ev.hit = hit]

\* the simulation block of one frame
simulate(S, due, adv) == car_step(world_step(S, due, adv))

\* the end of the draw section: if game_over: best = max(best, score)
draw(S) == IF S.game_over /\ ~S.crashed THEN [S EXCEPT !.best = Max(S.best, S.score)] ELSE S

\* ------------------------------------------------------------ specifications
\* An environment: the terminal sizes, the keys and the number of speed ramps
\* the loop is run with.
EnvMain == [H |-> Heights, W |-> Widths, ups |-> 0]
EnvWide == [H |-> WideHeights, W |-> WideWidths, ups |-> MaxSpeedUps]
EnvResize == [H |-> ResizeHeights, W |-> ResizeWidths, ups |-> 0]

MaxOf(X) == CHOOSE x \in X : \A y \in X : y <= x

\* the loop stops once this many columns have been generated
Horizon(E) == warmup_for(MaxOf(E.W)) + MaxPost

\* the state when the frame loop is entered (lines 189-222), and the same
\* state with the enemies es and the projectiles bs on the screen
InitWith(E, es, bs) ==
    \E nh \in E.H, nw \in E.W :
      LET L == layout(nh, nw)
      IN  \E a \in advance(TrackGen(nw, warmup_for(nw), L.eff_max_elev), nw, START_SPEED) :
            /\ scr = L
            /\ track = a.track
            /\ visible = a.cells
            /\ scroll_acc = 0
            /\ speed = START_SPEED
            /\ score = 0 /\ best = 0
            /\ boost = FALSE /\ paused = FALSE /\ game_over = FALSE /\ running = TRUE
            /\ player = Player(L.base_row - (IF a.cells # <<>> THEN a.cells[1].elev ELSE 0),
                               L.car_x)
            /\ bullets = bs /\ enemies = es
            /\ speed_ups = 0
            /\ odo = nw
            /\ crashed = FALSE
            /\ ev = ev0
            /\ gobs = gobs0(nw)

InitOn(E) == InitWith(E, <<>>, <<>>)

\* one iteration of the while loop of main (lines 224-427) with the polled key
Loop(key, E) ==
    /\ running
    /\ odo < Horizon(E)
    /\ \E nh \in E.H, nw \in E.W :
       \E ready \in (IF key = "space" THEN BOOLEAN ELSE {TRUE}) :
         LET S1 == resize(World, nh, nw)
             fresh == TrackGen(nw, warmup_for(nw), S1.scr.eff_max_elev)
         IN  \E cells \in (IF key = "r" /\ S1.game_over
                           THEN advance(fresh, nw, START_SPEED)
                           ELSE {[track |-> S1.track, cells |-> <<>>, enemies |-> 0]}) :
               LET S2 == handle_key(S1, key, ready, cells)
               IN  IF S2.paused
                   THEN Commit([S2 EXCEPT !.ev = ev_idle(@)])
                   ELSE IF S2.game_over
                   THEN Commit(draw([S2 EXCEPT !.ev = ev_idle(@)]))
                   ELSE \E due \in (IF S2.speed_ups < E.ups THEN BOOLEAN ELSE {FALSE}) :
                        \E adv \in advance(S2.track, scroll_cols(S2, due),
                                           scroll_speed(S2, due)) :
                          Commit(draw(simulate(S2, due, adv)))

NoKey(E) == Loop("none", E)
QuitKey(E) == Loop("q", E)
PauseKey(E) == Loop("p", E)
JumpKey(E) == Loop("up", E)
BoostKey(E) == Loop("right", E)
ShootKey(E) == Loop("space", E)
RestartKey(E) == Loop("r", E)
OtherKey(E) == Loop("other", E)

Init == InitOn(EnvMain)

Next ==
    \/ NoKey(EnvMain)
    \/ QuitKey(EnvMain)
    \/ PauseKey(EnvMain)
    \/ JumpKey(EnvMain)
    \/ BoostKey(EnvMain)
    \/ ShootKey(EnvMain)
    \/ RestartKey(EnvMain)
    \/ OtherKey(EnvMain)

\* the program on a narrow screen of fixed size, at the start speed
Spec == Init /\ [][Next]_vars

InitResize == InitOn(EnvResize)

NextResize ==
    \/ NoKey(EnvResize)
    \/ BoostKey(EnvResize)

\* the program under screen resizes
SpecResize == InitResize /\ [][NextResize]_vars

InitWide == InitOn(EnvWide)

NextWide ==
    \/ NoKey(EnvWide)
    \/ BoostKey(EnvWide)
    \/ ShootKey(EnvWide)

\* the program on a screen wide enough for projectiles to fly, with the
\* speed ramp
SpecWide == InitWide /\ [][NextWide]_vars

\* Enemies and projectiles as the resolution of lines 307-321 meets them on
\* the wide screen: an enemy's x is a whole column, or 0.35 column past one
\* after an odd number of shimmies; a projectile is on the screen, at the
\* car's gun row or a jump above it.
SeqsUpTo(X, n) == UNION {[1..k -> X] : k \in 0..n}
WideRow == layout(MaxOf(WideHeights), MaxOf(WideWidths)).base_row
EnemyCols == {2, 6}
EnemyLists ==
    LET at == {[x |-> c * Sub, y |-> WideRow - ENEMY_HEIGHT - d, shim |-> 1] :
                 c \in EnemyCols, d \in {0, 1}}
        off == {[x |-> c * Sub + ENEMY_SHIM_PER_FRAME,
                 y |-> WideRow - ENEMY_HEIGHT, shim |-> -1] : c \in EnemyCols}
    IN  SeqsUpTo(at \cup off, MaxEnemies)
ShotCols == {8, 11, 15}
ShotLists ==
    SeqsUpTo({[x |-> c, y |-> WideRow - 2 - d] : c \in ShotCols, d \in {0, 3}},
             MaxShots)

InitResolve == \E es \in EnemyLists, bs \in ShotLists : InitWith(EnvWide, es, bs)

\* the projectile-enemy resolution of one frame
Resolve ==
    /\ ~ev.sim
    /\ Commit([shoot_down([World EXCEPT !.ev.score0 = score], enemies, bullets)
                  EXCEPT !.ev.sim = TRUE])

NextResolve == Resolve

\* the projectile-enemy resolution under any enemies and projectiles
SpecResolve == InitResolve /\ [][NextResolve]_vars

EnvJump == [H |-> JumpHeights, W |-> Widths, ups |-> 0]

InitJump == InitOn(EnvJump)

\* Player.request_jump
RequestJump ==
    /\ ~player.jump_buffer
    /\ player' = [player EXCEPT !.jump_buffer = TRUE]
    /\ UNCHANGED <<scr, track, visible, scroll_acc, speed, score, best, boost,
                   paused, game_over, running, bullets, enemies, speed_ups, odo,
                   crashed, ev, gobs>>

\* Player.update(surface_row, 1/FPS) on the surface row the player started on
UpdateFlat ==
    /\ player' = update(player, scr.base_row)
    /\ UNCHANGED <<scr, track, visible, scroll_acc, speed, score, best, boost,
                   paused, game_over, running, bullets, enemies, speed_ups, odo,
                   crashed, ev, gobs>>

NextJump == RequestJump \/ UpdateFlat

\* a player on a surface row that stays constant
SpecJump == InitJump /\ [][NextJump]_vars

\* a TrackGen object as main constructs it, before any column is generated
InitGen ==
    \E nh \in GenHeights, nw \in ResizeWidths :
      LET L == layout(nh, nw)
      IN  /\ scr = L
          /\ track = TrackGen(nw, warmup_for(nw), L.eff_max_elev)
          /\ visible = <<>>
          /\ scroll_acc = 0
          /\ speed = START_SPEED
          /\ score = 0 /\ best = 0
          /\ boost = FALSE /\ paused = FALSE /\ game_over = FALSE /\ running = TRUE
          /\ player = Player(L.base_row, L.car_x)
          /\ bullets = <<>> /\ enemies = <<>>
          /\ speed_ups = 0
          /\ odo = 0
          /\ crashed = FALSE
          /\ ev = ev0
          /\ gobs = gobs0(nw)

genvars == <<visible, scroll_acc, speed, score, best, boost, paused, game_over,
             running, player, bullets, enemies, speed_ups, odo,
             crashed, ev>>

\* one call of next_cell at any speed
GenNextCell ==
    \E s \in GenSpeeds :
      \E r \in next_cell(track, s) :
        /\ track' = r.track
        /\ gobs' = Observe(gobs, track, r, s)
        /\ UNCHANGED <<scr, genvars>>

\* a resize that changes the height: track.max_elev = eff_max_elev (line 229)
GenResize ==
    \E nh \in GenHeights :
      /\ nh # scr.h
      /\ scr' = layout(nh, scr.w)
      /\ track' = [track EXCEPT !.max_elev = layout(nh, scr.w).eff_max_elev]
      /\ UNCHANGED <<gobs, genvars>>

\* the generator is replaced by a fresh one, as on restart (lines 250-251)
GenRestart ==
    \E nw \in ResizeWidths :
      /\ gobs.n > 0
      /\ scr' = layout(scr.h, nw)
      /\ track' = TrackGen(nw, warmup_for(nw), scr.eff_max_elev)
      /\ gobs' = gobs0(nw)
      /\ UNCHANGED genvars

NextGen == GenNextCell \/ GenResize \/ GenRestart

\* the generator under any caller
SpecGen == InitGen /\ [][NextGen]_vars

\* ------------------------------------------------------------ claims
\* C1: whenever a hazard (pit, cone, step or enemy column) starts after an
\* earlier hazard has ended, at least min_spacing(speed passed on the call that
\* ended the earlier hazard) plain ground columns, with no enemy marker and no
\* elevation change, lie between the two.
C1_HazardSpacing == gobs.start => gobs.sgap >= gobs.sneed

\* a hazard starts exactly min_spacing columns after the pit before it ended
C1_Witness ==
    /\ gobs.start /\ gobs.sneed >= PIT_MIN /\ gobs.sgap = gobs.sneed
    /\ gobs.cell = "C"

\* the upper bound the pit width is claimed to respect
PitLimit(s) == Min(PIT_MAX, max_jump_columns(s) - 2)

\* C2: every pit is at least PIT_MIN and at most
\* min(PIT_MAX, max_jump_columns(s) - 2) columns wide, s being the speed at
\* which it started, and no pit starts at a speed where that bound is below
\* PIT_MIN.
C2_PitWidth ==
    /\ gobs.pitw > 0 =>
         PitLimit(gobs.pits) >= PIT_MIN /\ gobs.pitw <= PitLimit(gobs.pits)
    /\ gobs.pit_done > 0 =>
         gobs.pit_done >= PIT_MIN /\ gobs.pit_done <= PitLimit(gobs.pit_done_s)

\* C3: the generator's elevation stays in [0, max_elev], whatever max_elev the
\* resizes assign, and a step event changes the elevation by exactly one row:
\* up at elevation 0, down at max_elev.
C3_ElevationBounded ==
    /\ track.elev >= 0 /\ track.elev <= track.max_elev
    /\ gobs.step =>
         /\ gobs.elev = gobs.step_from + 1 \/ gobs.elev = gobs.step_from - 1
         /\ gobs.step_from = 0 => gobs.elev = 1
         /\ gobs.step_from = gobs.step_max => gobs.elev = gobs.step_from - 1

\* C5: the first SAFE_START_SEC * START_SPEED * FPS + w columns of a fresh
\* generator (w the screen width it was constructed for) are plain ground at
\* elevation 0 with no enemy marker.
C5_WarmupClean ==
    gobs.n <= SAFE_START_SEC * FPS + gobs.w0 => gobs.clean

\* the whole warm-up stretch has been generated, at speeds below START_SPEED too
C5_Witness ==
    /\ gobs.n = SAFE_START_SEC * FPS + gobs.w0
    /\ gobs.clean
    /\ track.warmup_cols = 0

\* C4: the visible window is as long as the screen is wide at the end of every
\* loop iteration the program survives, whether the last resize shrank or grew
\* the width (on a shrink it keeps its rightmost columns).
C4_WindowWidth == ~crashed => Len(visible) = scr.w

\* the column under the car and its right neighbour, as the simulation block
\* of the last frame sampled them
CarCol == clamp(player.x, 0, scr.w - 1)
NextCol == clamp(CarCol + 1, 0, scr.w - 1)
HereCell == visible[CarCol + 1].cell
HereElev == visible[CarCol + 1].elev
NextElev == visible[NextCol + 1].elev
SurfaceHere == scr.base_row - HereElev
SurfaceNext == scr.base_row - NextElev
\* |player.y - surface_row|, in 1/YU row
HeightHere ==
    IF player.y < SurfaceHere * YU THEN SurfaceHere * YU - player.y
    ELSE player.y - SurfaceHere * YU
Lethal(c) == c = " " \/ c = "C"

\* C6 as claimed: on a frame that leaves Player.on_ground false, a pit or cone
\* under the car does not end the run.
C6_FlagGrounded == (ev.sim /\ ~player.on_ground) => ~ev.terrain

\* C6 as amended: on a frame that leaves the player 0.51 rows or more away from
\* the surface row of the car column, a pit or cone under the car does not end
\* the run (the first frame of a jump and the last two airborne frames are
\* within 0.51 rows and do end it).
C6_NearGrounded == (ev.sim /\ HeightHere * 100 >= 51 * YU) => ~ev.terrain

\* the car is over a pit, more than half a row up, and the run goes on
C6_Witness ==
    /\ ev.sim /\ HereCell = " " /\ HeightHere * 100 >= 51 * YU
    /\ ~game_over

\* C7: a frame that leaves the player grounded on a pit or cone column ends the
\* run on that frame, and the terrain check ends the run only when the cell at
\* the car column is a pit or a cone.
C7_LethalSameFrame ==
    ev.sim =>
      /\ (player.on_ground /\ Lethal(HereCell)) => (game_over /\ ev.terrain)
      /\ ev.terrain => Lethal(HereCell)

\* the player is grounded on a pit column and the run has ended
C7_Witness ==
    /\ ev.sim /\ player.on_ground /\ HereCell = " "
    /\ ev.terrain /\ game_over

\* C8: on a frame where the column right of the car is strictly higher than
\* the car column, a grounded player whose y is below (greater than) the next
\* surface row ends the run, and a player whose y is at or above (at most) the
\* next surface row is not stopped by the step-wall check.
C8_StepWall ==
    (ev.sim /\ NextElev > HereElev) =>
      /\ (player.on_ground /\ player.y > SurfaceNext * YU) => (ev.wall /\ game_over)
      /\ player.y <= SurfaceNext * YU => ~ev.wall

\* a grounded player ran into a step up
C8_Witness ==
    /\ ev.sim /\ NextElev > HereElev /\ player.on_ground
    /\ player.y > SurfaceNext * YU /\ ev.wall /\ game_over

\* (reachability of the other case of C8: the car is above a step up)
C8_OverStep ==
    /\ ev.sim /\ NextElev > HereElev /\ player.y <= SurfaceNext * YU /\ ~game_over

\* the overlap test of the resolution: a 1x1 projectile against an enemy's
\* ENEMY_WIDTH x ENEMY_HEIGHT box at its rounded position
Overlaps(b, e) ==
    rects_overlap(b.x, b.y, 1, 1, round_to(e.x, Sub), e.y, ENEMY_WIDTH, ENEMY_HEIGHT)

\* the elements of seq at the indices in keep, in order
Pick(seq, keep) ==
    LET F[i \in 0..Len(seq)] ==
          IF i = 0 THEN <<>>
          ELSE IF i \in keep THEN Append(F[i - 1], seq[i]) ELSE F[i - 1]
    IN  F[Len(seq)]

\* C9: in one frame's resolution there is a set R of removed enemies and a
\* one-to-one assignment f of a projectile to each of them, such that the
\* projectile f[i] overlaps enemy i; exactly the enemies of R and the
\* projectiles of f are gone at the end of the frame; no remaining projectile
\* overlaps a remaining enemy; and score gained ENEMY_SCORE once per enemy of R
\* (beside the frame's columns), however many projectiles overlapped it.
C9_Resolution ==
    ev.sim =>
      \E R \in SUBSET (1..Len(ev.targets)) :
        \E f \in [R -> 1..Len(ev.shots)] :
          /\ \A i, j \in R : f[i] = f[j] => i = j
          /\ \A i \in R : Overlaps(ev.shots[f[i]], ev.targets[i])
          /\ enemies = Pick(ev.targets, (1..Len(ev.targets)) \ R)
          /\ bullets = Pick(ev.shots, (1..Len(ev.shots)) \ {f[i] : i \in R})
          /\ \A i \in 1..Len(enemies), j \in 1..Len(bullets) :
                ~Overlaps(bullets[j], enemies[i])
          /\ score = ev.score0 + ENEMY_SCORE * Cardinality(R)
                       + (IF game_over THEN 0 ELSE ev.cols)

\* two projectiles overlapped the first enemy, and one projectile and
\* ENEMY_SCORE went for it
C9_Witness ==
    /\ ev.sim /\ Len(ev.targets) = 1
    /\ \E j, k \in 1..Len(ev.shots) :
         /\ j # k
         /\ Overlaps(ev.shots[j], ev.targets[1])
         /\ Overlaps(ev.shots[k], ev.targets[1])
    /\ enemies = <<>>
    /\ Len(bullets) = Len(ev.shots) - 1
    /\ score = ev.score0 + ENEMY_SCORE + (IF game_over THEN 0 ELSE ev.cols)

\* (the other case of C9: one projectile overlapped two enemies and removed
\* the first one only)
C9_OneForTwo ==
    /\ ev.sim /\ Len(ev.targets) = 2 /\ Len(ev.shots) = 1
    /\ Overlaps(ev.shots[1], ev.targets[1])
    /\ Overlaps(ev.shots[1], ev.targets[2])
    /\ enemies = <<ev.targets[2]>> /\ bullets = <<>>

\* C10: a frame that does not end the run adds the columns it scrolled and
\* ENEMY_SCORE per enemy destroyed to score; the frame that ends the run adds
\* the destroyed enemies only; so while the run goes on score is the number of
\* columns scrolled plus ENEMY_SCORE per enemy destroyed since it started, and
\* a player that never jumps stays grounded.
C10_Score ==
    /\ (ev.sim /\ ~game_over) =>
          score = ev.score0 + ev.cols + ENEMY_SCORE * ev.kills
    /\ (ev.sim /\ game_over) => score = ev.score0 + ENEMY_SCORE * ev.kills
    /\ ~game_over => score = ev.tcols + ENEMY_SCORE * ev.tkills
    /\ player.on_ground

\* a frame scrolled a column and destroyed an enemy, and the run goes on
C10_Witness ==
    /\ ev.sim /\ ~game_over /\ ev.cols >= 1 /\ ev.kills = 1
    /\ score = ev.score0 + ev.cols + ENEMY_SCORE
    /\ score = ev.tcols + ENEMY_SCORE * ev.tkills

\* (another case of C10: a boosted frame after a speed ramp scrolled more than
\* one column)
C10_Boosted ==
    /\ ev.sim /\ ~game_over /\ ev.cols >= 2 /\ speed > START_SPEED
    /\ score = ev.tcols /\ score > scr.w

\* (the other case of C10: the frame that ended the run scrolled columns)
C10_LastFrame == ev.sim /\ game_over /\ ev.cols >= 1

\* what the simulation owns: score, speed, scroll accumulator, visible window,
\* generator, player, enemies, projectiles
simvars == <<score, speed, scroll_acc, visible, track, player, enemies, bullets>>

\* C11: a loop iteration that has paused true after its key is handled leaves
\* score, speed, the scroll accumulator, the visible window, the generator,
\* the player, the enemies, the projectiles and game_over as they were,
\* whatever key it polled.
C11_PauseFreezes == [][paused' => UNCHANGED <<simvars, game_over>>]_vars

\* the columns a restart on the current screen can fill the window with
\* (lines 249-253)
RestartCells ==
    advance(TrackGen(scr.w, warmup_for(scr.w), scr.eff_max_elev), scr.w, START_SPEED)

\* C12: when the restart key is handled in game over, game_over is false,
\* score is 0, speed is START_SPEED, best is the larger of the old best and the
\* final score, there are no enemies and no projectiles, the player stands on
\* the surface row with no velocity and no pending jump, the generator is fresh
\* with its warm-up running, and the window holds w plain columns at elevation
\* 0; when it is handled outside game over nothing changes.
C12_Restart ==
    \A cells \in RestartCells :
      LET S2 == handle_key(World, "r", TRUE, cells)
      IN  IF game_over
          THEN /\ ~S2.game_over /\ S2.score = 0 /\ S2.speed = START_SPEED
               /\ S2.best = Max(best, score)
               /\ S2.enemies = <<>> /\ S2.bullets = <<>>
               /\ S2.player.on_ground /\ S2.player.vy = 0
               /\ ~S2.player.jump_buffer
               /\ S2.player.y = scr.base_row * YU
               /\ S2.track.elev = 0 /\ S2.track.pit_left = 0
               /\ S2.track.cooldown = 0 /\ S2.track.edge_protect = 0
               /\ S2.track.warmup_cols = SAFE_START_SEC * FPS
               /\ Len(S2.visible) = scr.w
               /\ \A i \in 1..Len(S2.visible) :
                     S2.visible[i].cell = "G" /\ S2.visible[i].elev = 0
          ELSE S2 = World

\* the first frame of a run started by a restart after a game over
C12_Witness ==
    /\ ~game_over /\ ~paused /\ best > 0
    /\ ev.sim /\ ev.tcols = ev.cols /\ score = ev.cols
    /\ track.warmup_cols = SAFE_START_SEC * FPS - ev.cols
    /\ Len(visible) = scr.w /\ player.on_ground

\* C13: after a loop iteration that polled no key, or a key other than the
\* boost key (jump, shoot, pause, an unrecognized key), boost is false.
C13_BoostLevel ==
    [][(\/ NoKey(EnvMain) \/ JumpKey(EnvMain) \/ ShootKey(EnvMain)
        \/ PauseKey(EnvMain) \/ OtherKey(EnvMain)) => ~boost']_vars

\* updates since take-off, read off the velocity (JUMP_VEL, less GRAVITY/FPS
\* per airborne update)
AirUpdates == (JUMP_VEL * VU - player.vy) \div GRAVITY

\* C14: on a constant surface row a grounded player has y equal to the surface
\* row and vy = 0; an update with a jump pending leaves the player airborne; an
\* airborne player has made between 1 and 28 updates since take-off (so the
\* 29th grounds it, within 30) and its y is above (less than) the surface row.
C14_RoundTrip ==
    /\ [](/\ player.on_ground => (player.y = scr.base_row * YU /\ player.vy = 0)
          /\ ~player.on_ground =>
               /\ AirUpdates >= 1 /\ AirUpdates <= 28
               /\ player.vy = JUMP_VEL * VU - AirUpdates * GRAVITY
               /\ player.y < scr.base_row * YU)
    /\ [][(player.on_ground /\ player.jump_buffer) =>
            (~player'.on_ground /\ ~player'.jump_buffer)]_vars

\* the last airborne update of a jump: the next one lands on the surface row
C14_Witness ==
    /\ ~player.on_ground /\ AirUpdates = 28
    /\ update(player, scr.base_row).on_ground
    /\ update(player, scr.base_row).y = scr.base_row * YU
    /\ update(player, scr.base_row).vy = 0

\* C15: at every speed a hazard column is generated at, max_jump_columns is at
\* least 3 and min_spacing is strictly greater than max_jump_columns.
C15_SpacingStrict == gobs.hz => (gobs.jump >= 3 /\ gobs.need > gobs.jump)

\* C16: a call of next_cell that reaches the new-hazard roll consumes four
\* hazard-category draws (step, pit, cone, enemy), whichever trial fires.
C16_FourDraws == gobs.draws > 0 => gobs.draws = 4

\* C17: no cone column is within EDGE_BUFFER columns after the last column of
\* a pit, at any speeds and whatever fires in between; and a next_cell call on
\* a cooldown column decrements cooldown and (down to 0) edge_protect together.
C17_EdgeProtection ==
    /\ [](gobs.cell = "C" => gobs.after_pit > EDGE_BUFFER)
    /\ [][(/\ GenNextCell
           /\ track.warmup_cols = 0 /\ track.pit_left = 0 /\ track.cooldown > 0)
          => /\ track'.cooldown = track.cooldown - 1
             /\ track'.edge_protect = Max(track.edge_protect - 1, 0)
             /\ gobs'.cell = "G"]_vars

\* a cone on the first column past the landing zone of a pit, after a cooldown
\* shorter than EDGE_BUFFER
C17_Witness ==
    /\ gobs.cell = "C" /\ gobs.after_pit = EDGE_BUFFER + 1
    /\ gobs.sneed < EDGE_BUFFER

C19_OneState == ~(paused /\ game_over)

\* C20: the frame loop never fails with an out-of-range access to the visible
\* window, whatever the sequence of frames and resizes.
C20_NoIndexError == ~crashed

====
